---- MODULE Spec2Model ----
(***************************************************************************)
(* A model of eth_getProofTester: the benchmark (src/benchmark.py:         *)
(* load_rows, resolve_block_numbers, run_batch, main) and the dataset      *)
(* generator (src/gen_dataset.py: JsonRpc, the crawl of main).             *)
(*                                                                         *)
(* Conventions.  Python's None is the string "None" for addresses, slots   *)
(* and errors, and NoBlock (-1) for block numbers, which are naturals.     *)
(* Latencies and back-off delays are naturals (units of time); only their  *)
(* order and their products with powers of two matter to the code.         *)
(***************************************************************************)
EXTENDS Integers, Sequences, FiniteSets, TLC

VARIABLES
    \* ---- resolve_block_numbers (src/benchmark.py:72-92)
    base_rows,      \* the argument `rows`: (bn_opt, addr, slot) tuples
    r_pos,          \* how many input rows the for loop has consumed
    last_bn,        \* last_bn
    skipped,        \* skipped
    resolved,       \* resolved
    r_pc,           \* "off" | "loop" | "done"
    \* ---- JsonRpc (src/gen_dataset.py:11-40)
    rpc,            \* per instance: self._id, self.max_retries, self.backoff
    c_inst,         \* the instance whose call() is running or ran last (0: none yet)
    c_pc,           \* "idle" | "loop": outside call() / at the head of its while loop
    payload_id,     \* payload["id"]
    retries,        \* retries
    last_err,       \* last_err
    posts,          \* the HTTP POSTs of this call, as the network saw them
    last_resp,      \* what the last POST came back with
    sleeps,         \* the time.sleep() calls of this call, in order
    outcome,        \* how the last call() ended: returned a result or raised
    calls,          \* per instance: the number of call() invocations so far
    \* ---- main and run_batch (src/benchmark.py:94-249)
    simulate_all,   \* args.simulate_all
    simulate_latest,\* args.simulate_latest
    m_pc,           \* main: "off" | "load" | "start" | "dispatch" | "done"
    run_no,         \* how many run_batch calls main has made
    mode_name,      \* run_batch's mode_name (its block_param_fn goes with it)
    total,          \* total
    b_pos,          \* rows the for loop of run_batch has finished
    req_id,         \* req_id
    latencies,      \* latencies
    successes,      \* successes
    failures,       \* failures
    failure_records,\* failure_records, one entry (the row number) per failure block
    b_pc,           \* run_batch: "off" | "idle" | "loop" | "posted"
    payload,        \* payload of the row in hand
    b_resp,         \* what session.post came back with for the row in hand
    row_out,        \* the row's http_status, ok and error_msg
    http_log,       \* every POST of this process, as the network saw it
    summaries,      \* the summaries printed so far
    \* ---- the crawl, main of src/gen_dataset.py:82-218
    a_start,        \* args.start
    a_end,          \* args.end
    noisy,          \* args.noisy
    g_pc,           \* "off" | "start" | "loop" | "tx" | "done" | "exit" | "crashed"
    g_latest,       \* latest
    end_block,      \* end_block
    g_bn,           \* bn, the block the for loop is at
    block_hash,     \* block_hash of the block in hand
    blk_ntx,        \* len(txs) of the block in hand
    txs_left,       \* transactions of the block in hand not yet processed
    out_rows,       \* the rows written to the output file, in order
    chain_calls,    \* the eth_blockNumber and eth_getBlockByNumber calls made, in order
    tx_env,         \* the transaction in hand, with what the node answered for it
    tx_calls,       \* the rpc calls made for the transaction in hand
    tx_log          \* every transaction processed: its block, addresses, slot and rows

rvars == <<base_rows, r_pos, last_bn, skipped, resolved, r_pc>>
cvars == <<rpc, c_inst, c_pc, payload_id, retries, last_err, posts, last_resp, sleeps,
           outcome, calls>>

avars == <<simulate_all, simulate_latest>>
bvars == <<m_pc, run_no, mode_name, total, b_pos, req_id, latencies, successes, failures,
           failure_records, b_pc, payload, b_resp, row_out, http_log, summaries>>

gvars == <<a_start, a_end, noisy, g_pc, g_latest, end_block, g_bn, block_hash, blk_ntx, txs_left,
           out_rows, chain_calls, tx_env, tx_calls, tx_log>>

vars == <<rvars, cvars, avars, bvars, gvars>>

\* What a component's steps leave alone: the other components' variables.
notR == <<cvars, avars, bvars, gvars>>
notC == <<rvars, avars, bvars, gvars>>

\* ------------------------------------------------------------------ bounds
MaxRows == 3        \* longest input of the resolver
MaxBlock == 2       \* block numbers of the resolver's inputs are 0..MaxBlock
MaxRetries == 2     \* --retries is drawn from -1..MaxRetries
MaxBackoff == 2     \* --backoff is drawn from 0..MaxBackoff
MaxCalls == 2       \* call() invocations per JsonRpc instance
MaxBatchRows == 2   \* longest CSV that main() is run on
MaxSamples == 101   \* most latency samples a summary is computed from
FirstBlock == 9     \* lowest block number a crawl is asked for
MaxRange == 2       \* most blocks in the range of a crawl
MaxTxs == 1         \* most transactions of a block crawled alone

\* ------------------------------------------------------------------ values
None == "None"
NoBlock == -1

Addrs == {"0xA", "0xB"}
Slots == {"0x1"}

BaseRow == [bn : (0..MaxBlock) \cup {NoBlock}, addr : Addrs, slot : Slots \cup {None}]

SeqsUpTo(S, n) == UNION {[1..k -> S] : k \in 0..n}

\* ------------------------------------------------- resolve_block_numbers
\* The state the loop carries: line 77-79.
ResolveStart == [last_bn |-> NoBlock, skipped |-> 0, resolved |-> <<>>]

\* Mutants of the loop body.
ResolveRow_keepFirst(st, row) ==
    IF row.bn # NoBlock
    THEN [st EXCEPT !.last_bn = IF st.last_bn = NoBlock THEN row.bn ELSE st.last_bn,
                    !.resolved = Append(@, [effective |-> row.bn, original |-> row.bn,
                                            addr |-> row.addr, slot |-> row.slot])]
    ELSE IF st.last_bn = NoBlock
         THEN [st EXCEPT !.skipped = @ + 1]
         ELSE [st EXCEPT !.resolved = Append(@, [effective |-> st.last_bn, original |-> row.bn,
                                                 addr |-> row.addr, slot |-> row.slot])]

ResolveRow_dropAbsent(st, row) ==
    IF row.bn # NoBlock
    THEN [st EXCEPT !.last_bn = row.bn,
                    !.resolved = Append(@, [effective |-> row.bn, original |-> row.bn,
                                            addr |-> row.addr, slot |-> row.slot])]
    ELSE [st EXCEPT !.skipped = @ + 1]

ResolveRow_staleOnce(st, row) ==
    IF row.bn # NoBlock
    THEN [st EXCEPT !.last_bn = IF Len(st.resolved) = 1 THEN st.last_bn ELSE row.bn,
                    !.resolved = Append(@, [effective |-> row.bn, original |-> row.bn,
                                            addr |-> row.addr, slot |-> row.slot])]
    ELSE IF st.last_bn = NoBlock
         THEN [st EXCEPT !.skipped = @ + 1]
         ELSE [st EXCEPT !.resolved = Append(@, [effective |-> st.last_bn, original |-> row.bn,
                                                 addr |-> row.addr, slot |-> row.slot])]

\* One iteration of the for loop, lines 80-89.
ResolveRow(st, row) ==
    IF row.bn # NoBlock
    THEN [st EXCEPT !.last_bn = row.bn,
                    !.resolved = Append(@, [effective |-> row.bn, original |-> row.bn,
                                            addr |-> row.addr, slot |-> row.slot])]
    ELSE IF st.last_bn = NoBlock
         THEN [st EXCEPT !.skipped = @ + 1]
         ELSE [st EXCEPT !.resolved = Append(@, [effective |-> st.last_bn, original |-> row.bn,
                                                 addr |-> row.addr, slot |-> row.slot])]

\* The whole function as a left-to-right fold, lines 77-92.
RECURSIVE ResolveFold(_, _)
ResolveFold(st, rs) ==
    IF rs = <<>> THEN st ELSE ResolveFold(ResolveRow(st, Head(rs)), Tail(rs))

resolve_block_numbers(rs) == ResolveFold(ResolveStart, rs)

\* The resolver's variables when it is not the component under study.
ResolveOff ==
    /\ base_rows = <<>>
    /\ r_pos = 0
    /\ last_bn = NoBlock
    /\ skipped = 0
    /\ resolved = <<>>
    /\ r_pc = "off"

InitResolveOnly ==
    /\ base_rows \in SeqsUpTo(BaseRow, MaxRows)
    /\ r_pos = 0
    /\ last_bn = ResolveStart.last_bn
    /\ skipped = ResolveStart.skipped
    /\ resolved = ResolveStart.resolved
    /\ r_pc = "loop"

\* for bn_opt, addr, slot in rows: (one iteration)
ResolveLoop ==
    /\ r_pc = "loop"
    /\ r_pos < Len(base_rows)
    /\ LET st == ResolveRow([last_bn |-> last_bn, skipped |-> skipped, resolved |-> resolved],
                            base_rows[r_pos + 1])
       IN /\ last_bn' = st.last_bn
          /\ skipped' = st.skipped
          /\ resolved' = st.resolved
    /\ r_pos' = r_pos + 1
    /\ UNCHANGED <<base_rows, r_pc>>
    /\ UNCHANGED notR

\* The loop is exhausted: the warning of lines 90-91 and the return of line 92.
ResolveReturn ==
    /\ r_pc = "loop"
    /\ r_pos = Len(base_rows)
    /\ r_pc' = "done"
    /\ UNCHANGED <<base_rows, r_pos, last_bn, skipped, resolved>>
    /\ UNCHANGED notR

NextResolve == ResolveLoop \/ ResolveReturn

\* ---------------------------------------------------------------- JsonRpc
Insts == {1, 2}

\* __init__'s defaults, line 12.
DefaultRetries == 3
DefaultBackoff == 0

\* What one POST can come back with: the transport raising (connection error,
\* timeout), or an HTTP response with a status and a body.  Status 300 stands for the
\* statuses requests hands back that are neither 2xx nor an error (a 3xx it does not
\* follow, such as 300 or 304), 404 for the 4xx/5xx ones.
RpcBodies == {"notjson", "error", "result1", "result2", "noresult"}
RpcResp ==
    {[transport |-> "exc", status |-> 0, body |-> "none"]}
    \cup [transport : {"ok"}, status : {200, 300, 404}, body : RpcBodies]

\* Response.raise_for_status(), line 29: raises for 4xx and 5xx statuses only.
RaisesForStatus(status) == status >= 400 /\ status < 600

\* The try block of one attempt, lines 28-33: the exception it raises, or None when
\* it reaches the return.
AttemptError(resp) ==
    IF resp.transport = "exc" THEN "ConnectionError"
    ELSE IF RaisesForStatus(resp.status) THEN "HTTPError"
    ELSE IF resp.body = "notjson" THEN "JSONDecodeError"
    ELSE IF resp.body = "error" THEN "RPC error"
    ELSE IF resp.body = "noresult" THEN "KeyError"
    ELSE None

\* data["result"], line 33.
ResultOf(resp) == resp.body

LoopCond_strict(r, max_retries) == r < max_retries

\* while retries <= self.max_retries, line 26.
LoopCond(r, max_retries) == r <= max_retries

\* self.backoff * (2 ** retries), line 38.
SleepFor(backoff, r) == backoff * (2 ^ r)

PayloadId_beforeIncrement(self_id) == self_id - 1

\* payload["id"] is self._id, read after the increment of line 22 (line 23).
PayloadId(self_id) == self_id

RpcOff ==
    /\ rpc = [i \in Insts |-> [id |-> 0, max_retries |-> DefaultRetries,
                                backoff |-> DefaultBackoff]]
    /\ c_inst = 0
    /\ c_pc = "off"
    /\ payload_id = 0
    /\ retries = 0
    /\ last_err = None
    /\ posts = <<>>
    /\ last_resp = None
    /\ sleeps = <<>>
    /\ outcome = [kind |-> "none", value |-> None]
    /\ calls = [i \in Insts |-> 0]

\* Two clients: instance 1 built as main() builds it from the command line (line 99),
\* instance 2 built with the defaults (line 12).  self._id = 0 (line 18).
InitRpcOnly ==
    /\ \E n \in (-1)..MaxRetries, b \in 0..MaxBackoff :
          rpc = [i \in Insts |->
                   IF i = 1 THEN [id |-> 0, max_retries |-> n, backoff |-> b]
                   ELSE [id |-> 0, max_retries |-> DefaultRetries,
                         backoff |-> DefaultBackoff]]
    /\ c_inst = 0
    /\ c_pc = "idle"
    /\ payload_id = 0
    /\ retries = 0
    /\ last_err = None
    /\ posts = <<>>
    /\ last_resp = None
    /\ sleeps = <<>>
    /\ outcome = [kind |-> "none", value |-> None]
    /\ calls = [i \in Insts |-> 0]

\* call() is entered on instance i: lines 22-25.
RpcCall(i) ==
    /\ c_pc = "idle"
    /\ calls[i] < MaxCalls
    /\ rpc' = [rpc EXCEPT ![i].id = @ + 1]
    /\ payload_id' = PayloadId(rpc'[i].id)
    /\ retries' = 0
    /\ last_err' = None
    /\ c_inst' = i
    /\ c_pc' = "loop"
    /\ posts' = <<>>
    /\ last_resp' = None
    /\ sleeps' = <<>>
    /\ outcome' = [kind |-> "none", value |-> None]
    /\ calls' = [calls EXCEPT ![i] = @ + 1]
    /\ UNCHANGED notC

\* One iteration of the while loop, lines 26-39: the POST, then the return of line 33,
\* or the except block, which leaves the loop (and line 40 raises) or sleeps and
\* counts the retry.
RpcAttempt(resp) ==
    /\ c_pc = "loop"
    /\ LoopCond(retries, rpc[c_inst].max_retries)
    /\ LET e == AttemptError(resp) IN
       /\ posts' = Append(posts, [id |-> payload_id, failed |-> e # None])
       /\ last_resp' = resp
       /\ IF e = None
          THEN /\ outcome' = [kind |-> "returned", value |-> ResultOf(resp)]
               /\ c_pc' = "idle"
               /\ UNCHANGED <<last_err, retries, sleeps>>
          ELSE /\ last_err' = e
               /\ IF retries = rpc[c_inst].max_retries
                  THEN /\ outcome' = [kind |-> "raised", value |-> e]
                       /\ c_pc' = "idle"
                       /\ UNCHANGED <<retries, sleeps>>
                  ELSE /\ sleeps' = Append(sleeps, SleepFor(rpc[c_inst].backoff, retries))
                       /\ retries' = retries + 1
                       /\ UNCHANGED <<outcome, c_pc>>
    /\ UNCHANGED <<rpc, c_inst, payload_id, calls>>
    /\ UNCHANGED notC

\* The while condition is false (only when max_retries < 0): line 40 raises.
RpcExhausted ==
    /\ c_pc = "loop"
    /\ ~LoopCond(retries, rpc[c_inst].max_retries)
    /\ outcome' = [kind |-> "raised", value |-> last_err]
    /\ c_pc' = "idle"
    /\ UNCHANGED <<rpc, c_inst, payload_id, retries, last_err, posts, last_resp, sleeps, calls>>
    /\ UNCHANGED notC

NextRpc ==
    \/ \E i \in Insts : RpcCall(i)
    \/ \E resp \in RpcResp : RpcAttempt(resp)
    \/ RpcExhausted

\* ------------------------------------------------------- main and run_batch
\* to_hex (line 10-11): Python's hex() of a natural, as its characters.
HexChars == <<"0", "1", "2", "3", "4", "5", "6", "7", "8", "9", "a", "b", "c", "d", "e", "f">>

RECURSIVE HexDigits(_)
HexDigits(n) ==
    IF n < 16 THEN <<HexChars[n + 1]>>
    ELSE HexDigits(n \div 16) \o <<HexChars[(n % 16) + 1]>>

RECURSIVE DecDigits(_)
DecDigits(n) ==
    IF n < 10 THEN <<HexChars[n + 1]>>
    ELSE DecDigits(n \div 10) \o <<HexChars[(n % 10) + 1]>>

to_hex_decimal(n) == <<"0", "x">> \o DecDigits(n)

to_hex(n) == <<"0", "x">> \o HexDigits(n)

Latest == <<"l", "a", "t", "e", "s", "t">>

\* The block_param_fn main passes with each mode name: lines 225, 232, 240, 248.
BlockParamFn(mode, bn) ==
    IF mode = "SIM-LATEST" THEN [isint |-> FALSE, str |-> Latest, int |-> 0]
    ELSE [isint |-> TRUE, str |-> <<>>, int |-> bn]

\* build_payload, lines 13-21.
build_payload(id, address, slot, block_param) ==
    [id |-> id,
     method |-> "eth_getProof",
     address |-> address,
     storage_keys |-> IF slot = None THEN <<>> ELSE <<slot>>,
     block_tag |-> IF block_param.isint THEN to_hex(block_param.int) ELSE block_param.str]

\* The run_batch calls main makes, in order: lines 219-249.
Schedule(all, latest) ==
    IF all THEN <<"SIM-LATEST", "REAL-BLOCKS">>
    ELSE IF latest THEN <<"SIM-LATEST">>
    ELSE <<"REAL-BLOCKS">>

\* What one POST of the benchmark can come back with.  Bodies: not JSON; an object
\* with an `error` object; an object whose result has both proofs (storageProof
\* non-empty or empty); a result lacking one of them; a result that is no object.
BatchBodies == {"notjson", "error", "proofs", "proofs_empty_storage", "no_account",
                "no_storage", "result_not_dict"}
BatchResp ==
    {[transport |-> "exc", status |-> 0, body |-> "none"]}
    \cup [transport : {"ok"}, status : {200}, body : BatchBodies]
    \cup [transport : {"ok"}, status : {300, 404}, body : {"error", "proofs"}]

\* elapsed, line 148, in units of time.
Elapsed == {1, 2}

\* http_status = None, line 121.
NoStatus == 0

\* The try/except of lines 126-146: the row's http_status, ok and error_msg.
Classify(resp) ==
    IF resp.transport = "exc"
    THEN [http_status |-> NoStatus, ok |-> FALSE, error_msg |-> "ConnectionError"]
    ELSE IF RaisesForStatus(resp.status)
    THEN [http_status |-> resp.status, ok |-> FALSE, error_msg |-> "HTTPError"]
    ELSE IF resp.body = "notjson"
    THEN [http_status |-> resp.status, ok |-> FALSE, error_msg |-> "JSONDecodeError"]
    ELSE IF resp.body = "error"
    THEN [http_status |-> resp.status, ok |-> FALSE, error_msg |-> "RPC error"]
    ELSE IF resp.body \in {"proofs", "proofs_empty_storage"}
    THEN [http_status |-> resp.status, ok |-> TRUE, error_msg |-> None]
    ELSE [http_status |-> resp.status, ok |-> FALSE,
          error_msg |-> "Missing expected fields in result."]

NextPos_retryFailed(pos, ok) == IF ok THEN pos + 1 ELSE pos

\* enumerate(rows, start=1) moves on to the next row whatever the outcome: line 115.
NextPos(pos, ok) == pos + 1

\* sorted(), line 172: element i goes to the place given by the number of smaller
\* elements, and of equal elements before it (the sort is stable).
sorted(s) ==
    LET n == Len(s)
        place == [i \in 1..n |->
                    Cardinality({j \in 1..n : s[j] < s[i] \/ (s[j] = s[i] /\ j < i)}) + 1]
    IN [k \in 1..n |-> s[CHOOSE i \in 1..n : place[i] = k]]

PctIndex_ceil(hundredths, n) == ((hundredths * (n - 1)) + 99) \div 100

\* int(p * (len(lat_sorted) - 1)), lines 173-175, for p = hundredths / 100.  The
\* double-precision product truncates to the exact floor for every n below 3,000,000
\* and p in {0.5, 0.95, 0.99}.
PctIndex(hundredths, n) == (hundredths * (n - 1)) \div 100

\* The sample count from which p99 is indexed like the others: line 175.
P99MinSamples == 100

Summary_rateOfSuccesses(mode, tot, lats, succ, fail) ==
    LET lat_sorted == sorted(lats)
        n == Len(lat_sorted)
    IN [mode |-> mode,
        total |-> tot,
        successes |-> succ,
        failures |-> fail,
        fail_rate |-> [num |-> succ * 100, den |-> tot],
        p50 |-> lat_sorted[PctIndex(50, n) + 1],
        p95 |-> lat_sorted[PctIndex(95, n) + 1],
        p99 |-> IF n >= P99MinSamples THEN lat_sorted[PctIndex(99, n) + 1]
                ELSE lat_sorted[n]]

\* Lines 172-176.
Summary(mode, tot, lats, succ, fail) ==
    LET lat_sorted == sorted(lats)
        n == Len(lat_sorted)
    IN [mode |-> mode,
        total |-> tot,
        successes |-> succ,
        failures |-> fail,
        fail_rate |-> [num |-> fail * 100, den |-> tot],
        p50 |-> lat_sorted[PctIndex(50, n) + 1],
        p95 |-> lat_sorted[PctIndex(95, n) + 1],
        p99 |-> IF n >= P99MinSamples THEN lat_sorted[PctIndex(99, n) + 1]
                ELSE lat_sorted[n]]

NoPayload == build_payload(0, None, None, BlockParamFn("SIM-LATEST", 0))
NoResp == [transport |-> "none", status |-> 0, body |-> "none"]
NoRowOut == [http_status |-> NoStatus, ok |-> FALSE, error_msg |-> None]

BatchOff ==
    /\ simulate_all = FALSE
    /\ simulate_latest = FALSE
    /\ m_pc = "off"
    /\ run_no = 0
    /\ mode_name = None
    /\ total = 0
    /\ b_pos = 0
    /\ req_id = 0
    /\ latencies = <<>>
    /\ successes = 0
    /\ failures = 0
    /\ failure_records = <<>>
    /\ b_pc = "off"
    /\ payload = NoPayload
    /\ b_resp = NoResp
    /\ row_out = NoRowOut
    /\ http_log = <<>>
    /\ summaries = <<>>

\* The rows load_rows hands to main: (bn_opt, address, slot_opt), line 208.
BatchRow ==
    {[bn |-> NoBlock, addr |-> "0xA", slot |-> "0x1"],
     [bn |-> 0, addr |-> "0xB", slot |-> "0x1"],
     [bn |-> 26, addr |-> "0xA", slot |-> None]}

\* main() has parsed its arguments and loaded the CSV: lines 198-209.
InitBatchOnly ==
    /\ simulate_all \in BOOLEAN
    /\ simulate_latest \in BOOLEAN
    /\ base_rows \in SeqsUpTo(BatchRow, MaxBatchRows)
    /\ r_pos = 0
    /\ last_bn = NoBlock
    /\ skipped = 0
    /\ resolved = <<>>
    /\ r_pc = "off"
    /\ m_pc = "start"
    /\ run_no = 0
    /\ mode_name = None
    /\ total = 0
    /\ b_pos = 0
    /\ req_id = 0
    /\ latencies = <<>>
    /\ successes = 0
    /\ failures = 0
    /\ failure_records = <<>>
    /\ b_pc = "idle"
    /\ payload = NoPayload
    /\ b_resp = NoResp
    /\ row_out = NoRowOut
    /\ http_log = <<>>
    /\ summaries = <<>>

\* rows = resolve_block_numbers(base_rows), and the failure log is initialised:
\* lines 210-217.
MainResolve ==
    /\ m_pc = "start"
    /\ LET st == resolve_block_numbers(base_rows) IN
       /\ resolved' = st.resolved
       /\ skipped' = st.skipped
       /\ last_bn' = st.last_bn
    /\ r_pos' = Len(base_rows)
    /\ r_pc' = "done"
    /\ m_pc' = "dispatch"
    /\ UNCHANGED <<base_rows, cvars, avars, gvars, run_no, mode_name, total, b_pos, req_id,
                   latencies, successes, failures, failure_records, b_pc, payload, b_resp,
                   row_out, http_log, summaries>>

\* main calls run_batch (lines 219-249), which sets up its locals (lines 101-113) or
\* returns at once when there is no row (lines 105-107).
MainRunBatch ==
    /\ m_pc = "dispatch"
    /\ b_pc = "idle"
    /\ run_no < Len(Schedule(simulate_all, simulate_latest))
    /\ run_no' = run_no + 1
    /\ mode_name' = Schedule(simulate_all, simulate_latest)[run_no + 1]
    /\ total' = Len(resolved)
    /\ b_pos' = 0
    /\ IF Len(resolved) = 0
       THEN /\ b_pc' = "idle"
            /\ UNCHANGED <<req_id, latencies, successes, failures, failure_records>>
       ELSE /\ b_pc' = "loop"
            /\ req_id' = 0
            /\ latencies' = <<>>
            /\ successes' = 0
            /\ failures' = 0
            /\ failure_records' = <<>>
    /\ UNCHANGED <<rvars, cvars, avars, gvars, m_pc, payload, b_resp, row_out, http_log, summaries>>

\* The head of one iteration, lines 115-127: the payload is built and posted.
BatchIssue ==
    /\ b_pc = "loop"
    /\ b_pos < total
    /\ LET row == resolved[b_pos + 1] IN
       /\ req_id' = req_id + 1
       /\ payload' = build_payload(req_id', row.addr, row.slot,
                                   BlockParamFn(mode_name, row.effective))
    /\ b_resp' = NoResp
    /\ row_out' = NoRowOut
    /\ http_log' = Append(http_log, [run |-> run_no, mode |-> mode_name, payload |-> payload'])
    /\ b_pc' = "posted"
    /\ UNCHANGED <<rvars, cvars, avars, gvars, m_pc, run_no, mode_name, total, b_pos, latencies,
                   successes, failures, failure_records, summaries>>

\* The rest of the iteration, lines 127-170: the POST comes back (or raises), the row
\* is classified, its latency and outcome are recorded.
BatchRespond(resp, elapsed) ==
    /\ b_pc = "posted"
    /\ LET c == Classify(resp) IN
       /\ b_resp' = resp
       /\ row_out' = c
       /\ latencies' = Append(latencies, elapsed)
       /\ IF c.ok
          THEN /\ successes' = successes + 1
               /\ UNCHANGED <<failures, failure_records>>
          ELSE /\ failures' = failures + 1
               /\ failure_records' = Append(failure_records, b_pos + 1)
               /\ UNCHANGED successes
       /\ b_pos' = NextPos(b_pos, c.ok)
    /\ b_pc' = "loop"
    /\ UNCHANGED <<rvars, cvars, avars, gvars, m_pc, run_no, mode_name, total, req_id, payload,
                   http_log, summaries>>

\* After the loop, lines 172-195: the percentiles and the fail rate are computed, the
\* summary is printed, and run_batch returns.
BatchSummary ==
    /\ b_pc = "loop"
    /\ b_pos >= total
    /\ summaries' = Append(summaries, Summary(mode_name, total, latencies, successes, failures))
    /\ b_pc' = "idle"
    /\ UNCHANGED <<rvars, cvars, avars, gvars, m_pc, run_no, mode_name, total, b_pos, req_id,
                   latencies, successes, failures, failure_records, payload, b_resp, row_out,
                   http_log>>

\* main returns: line 249.
MainDone ==
    /\ m_pc = "dispatch"
    /\ b_pc = "idle"
    /\ run_no = Len(Schedule(simulate_all, simulate_latest))
    /\ m_pc' = "done"
    /\ UNCHANGED <<rvars, cvars, avars, gvars, run_no, mode_name, total, b_pos, req_id, latencies,
                   successes, failures, failure_records, b_pc, payload, b_resp, row_out,
                   http_log, summaries>>

NextBatch ==
    \/ MainResolve
    \/ MainRunBatch
    \/ BatchIssue
    \/ \E resp \in BatchResp, elapsed \in Elapsed : BatchRespond(resp, elapsed)
    \/ BatchSummary
    \/ MainDone

\* run_batch has finished its loop over n rows, with the latencies it recorded: the
\* state before line 172.  Latency i is (a * i) mod m, which for m = 11 and n = 10 is a
\* permutation of 1..10 (0.1 s .. 1.0 s in tenths of a second).
PctRow == [bn |-> 0, addr |-> "0xA", slot |-> None]

InitPctOnly ==
    \E n \in 1..MaxSamples, a \in {1, 3, 7}, m \in {11, 103} :
        /\ simulate_all = FALSE
        /\ simulate_latest = FALSE
        /\ base_rows = [k \in 1..n |-> PctRow]
        /\ r_pos = n
        /\ last_bn = 0
        /\ skipped = 0
        /\ resolved = [k \in 1..n |-> [effective |-> 0, original |-> 0,
                                       addr |-> PctRow.addr, slot |-> PctRow.slot]]
        /\ r_pc = "done"
        /\ m_pc = "dispatch"
        /\ run_no = 1
        /\ mode_name = "REAL-BLOCKS"
        /\ total = n
        /\ b_pos = n
        /\ req_id = n
        /\ latencies = [i \in 1..n |-> (a * i) % m]
        /\ successes = n
        /\ failures = 0
        /\ failure_records = <<>>
        /\ b_pc = "loop"
        /\ payload = build_payload(n, PctRow.addr, PctRow.slot, BlockParamFn("REAL-BLOCKS", 0))
        /\ b_resp = [transport |-> "ok", status |-> 200, body |-> "proofs"]
        /\ row_out = Classify(b_resp)
        /\ http_log = [k \in 1..n |->
                         [run |-> 1, mode |-> "REAL-BLOCKS",
                          payload |-> build_payload(k, PctRow.addr, PctRow.slot,
                                                    BlockParamFn("REAL-BLOCKS", 0))]]
        /\ summaries = <<>>

NextPct == BatchSummary \/ MainDone

\* ------------------------------------------- the crawl: gen_dataset.py main
\* What rpc.call() hands its caller: it raises once the client's retries are used up
\* (line 40), or it returns data["result"] (line 33): null, or, for the calls that
\* answer a quantity, a 0x-prefixed hexadecimal string.
Raised == [kind |-> "raise", hex |-> <<>>]
Null == [kind |-> "null", hex |-> <<>>]
Quantity(n) == [kind |-> "hex", hex |-> to_hex(n)]

\* int(ds, 16) of a string of hexadecimal digits.
RECURSIVE int16(_)
int16(ds) ==
    IF ds = <<>> THEN 0
    ELSE 16 * int16(SubSeq(ds, 1, Len(ds) - 1))
         + (CHOOSE i \in 0..15 : HexChars[i + 1] = ds[Len(ds)])

\* An absent integer: to_int's None, tx_index = None.
NoInt == NoBlock

\* to_int, lines 46-49: None for None, else int(x, 16), which reads past the 0x prefix.
to_int(x) == IF x.kind = "null" THEN NoInt ELSE int16(SubSeq(x.hex, 3, Len(x.hex)))

\* The storage keys a trace can answer with, and how each is spelled.
KeyUniverse == {"0x0f", "0x1", "0x10", "0x2", "0xa"}
Spelling(k) ==
    CASE k = "0x0f" -> <<"0", "x", "0", "f">>
      [] k = "0x1"  -> <<"0", "x", "1">>
      [] k = "0x10" -> <<"0", "x", "1", "0">>
      [] k = "0x2"  -> <<"0", "x", "2">>
      [] k = "0xa"  -> <<"0", "x", "a">>

\* Python's ord() of the characters of a key.
Ord(c) ==
    CASE c = "x" -> 120
      [] OTHER -> LET d == CHOOSE i \in 0..15 : HexChars[i + 1] = c
                  IN IF d < 10 THEN 48 + d ELSE 87 + d

\* a < b for two Python strings: the first differing character decides, and a proper
\* prefix comes first.
StrLess(a, b) ==
    LET x == Spelling(a)
        y == Spelling(b)
    IN \E i \in 1..(Len(x) + 1) :
          /\ \A j \in 1..(i - 1) : j <= Len(y) /\ x[j] = y[j]
          /\ \/ i = Len(x) + 1 /\ i <= Len(y)
             \/ i <= Len(x) /\ i <= Len(y) /\ Ord(x[i]) < Ord(y[i])

\* sorted(storage.keys()), line 70: the key with i - 1 smaller keys goes to place i.
sorted_keys(S) ==
    [i \in 1..Cardinality(S) |-> CHOOSE k \in S : Cardinality({j \in S : StrLess(j, k)}) = i - 1]

\* What debug_storageRangeAt can come back with: the call raises, the result is not
\* a dict with a dict under "storage", or it is one with these keys.
TraceRaised == [kind |-> "raise", keys |-> {}]
TraceNotDict == [kind |-> "notdict", keys |-> {}]
Storage(S) == [kind |-> "storage", keys |-> S]

get_4th_storage_slot_via_debug_third(trace) ==
    IF trace.kind # "storage" THEN None
    ELSE LET slot_keys == sorted_keys(trace.keys)
         IN IF Len(slot_keys) >= 3 THEN slot_keys[3] ELSE None

\* get_4th_storage_slot_via_debug, lines 62-74, from what the call came back with:
\* slot_keys[3] is the 4th key.
get_4th_storage_slot_via_debug(trace) ==
    IF trace.kind # "storage" THEN None
    ELSE LET slot_keys == sorted_keys(trace.keys)
         IN IF Len(slot_keys) >= 4 THEN slot_keys[4] ELSE None

\* The arguments of the trace call, line 65.
TraceLimit == 16
StartKey == <<"0", "x">> \o [i \in 1..64 |-> "0"]

is_contract_by_nonce_zero_zero(nonce) ==
    /\ nonce.kind # "raise"
    /\ (IF to_int(nonce) = NoInt THEN 0 ELSE to_int(nonce)) = 0

\* is_contract_by_nonce_zero, lines 54-60, from what eth_getTransactionCount came back
\* with: False when the call raised, else (to_int(nonce_hex) or 0) == 1.
is_contract_by_nonce_zero(nonce) ==
    /\ nonce.kind # "raise"
    /\ (IF to_int(nonce) = NoInt THEN 0 ELSE to_int(nonce)) = 1

\* The rpc calls a transaction can cause, as the node sees them.
NonceCall(address, block_tag) ==
    [method |-> "eth_getTransactionCount", addr |-> address, tag |-> block_tag,
     hash |-> None, index |-> NoInt, start_key |-> <<>>, limit |-> 0]
TraceCall(hash, tx_index, address) ==
    [method |-> "debug_storageRangeAt", addr |-> address, tag |-> <<>>,
     hash |-> hash, index |-> tx_index, start_key |-> StartKey, limit |-> TraceLimit]

\* tx.get("from") or "", tx.get("to") or "": lines 128-129.
OrEmpty(x) == IF x = None THEN "" ELSE x

\* The guard of line 135.
CanSample(from_addr, to_addr, hash, tx_index) ==
    from_addr # "" /\ to_addr # "" /\ hash # None /\ tx_index # NoInt

\* Lines 133-142 for one transaction of block bn: storage_slot, and the calls made.
SampleTx(bn, hash, tx_index, tx) ==
    LET can == CanSample(OrEmpty(tx.from), OrEmpty(tx.to), hash, tx_index)
        contract == can /\ is_contract_by_nonce_zero(tx.nonce)
    IN [slot |-> IF contract THEN get_4th_storage_slot_via_debug(tx.trace) ELSE None,
        calls |-> (IF can THEN <<NonceCall(OrEmpty(tx.to), to_hex(bn))>> ELSE <<>>)
                  \o (IF contract THEN <<TraceCall(hash, tx_index, OrEmpty(tx.to))>>
                      ELSE <<>>)]

\* One row of the output file, as csv.DictWriter writes it: the block number in
\* decimal, or empty.
Row(bn_text, address, slot, rand_account, rand_slot) ==
    [block_number |-> bn_text, address |-> address, storage_slot |-> slot,
     randomized_account |-> rand_account, randomized_slot |-> rand_slot]

\* rand_address() and rand_slot_key(), lines 76-80: each stands for whatever the
\* random source hands out.
RandAddress == "0x<40 random hex digits>"
RandSlotKey == "0x<64 random hex digits>"

\* storage_slot if storage_slot else "null", line 147.
SlotOrNull(storage_slot) == IF storage_slot = None \/ storage_slot = "" THEN "null" ELSE storage_slot

TxRows_skipEmptyTo(bn, from_addr, to_addr, storage_slot, noise) ==
    (IF to_addr = "" THEN <<>>
     ELSE <<Row(DecDigits(bn), to_addr, SlotOrNull(storage_slot), FALSE, FALSE)>>)
    \o <<Row(DecDigits(bn), from_addr, "null", FALSE, FALSE)>>
    \o (IF noise
        THEN <<Row(DecDigits(bn), from_addr, "null", TRUE, FALSE),
               Row(DecDigits(bn), to_addr, "null", FALSE, TRUE)>>
             \o (IF storage_slot # None
                 THEN <<Row(DecDigits(bn), from_addr, RandSlotKey, FALSE, TRUE),
                        Row(DecDigits(bn), to_addr, RandSlotKey, FALSE, TRUE),
                        Row(DecDigits(bn), to_addr, "null", FALSE, TRUE)>>
                 ELSE <<>>)
        ELSE <<>>)

TxRows_fourExtra(bn, from_addr, to_addr, storage_slot, noise) ==
    <<Row(DecDigits(bn), to_addr, SlotOrNull(storage_slot), FALSE, FALSE),
      Row(DecDigits(bn), from_addr, "null", FALSE, FALSE)>>
    \o (IF noise
        THEN <<Row(DecDigits(bn), from_addr, "null", TRUE, FALSE),
               Row(DecDigits(bn), to_addr, "null", FALSE, TRUE)>>
             \o (IF storage_slot # None
                 THEN <<Row(DecDigits(bn), from_addr, RandSlotKey, FALSE, TRUE),
                        Row(DecDigits(bn), to_addr, RandSlotKey, FALSE, TRUE)>>
                 ELSE <<>>)
        ELSE <<>>)

TxRows_fromFirst(bn, from_addr, to_addr, storage_slot, noise) ==
    <<Row(DecDigits(bn), from_addr, "null", FALSE, FALSE),
      Row(DecDigits(bn), to_addr, SlotOrNull(storage_slot), FALSE, FALSE)>>
    \o (IF noise
        THEN <<Row(DecDigits(bn), from_addr, "null", TRUE, FALSE),
               Row(DecDigits(bn), to_addr, "null", FALSE, TRUE)>>
             \o (IF storage_slot # None
                 THEN <<Row(DecDigits(bn), from_addr, RandSlotKey, FALSE, TRUE),
                        Row(DecDigits(bn), to_addr, RandSlotKey, FALSE, TRUE),
                        Row(DecDigits(bn), to_addr, "null", FALSE, TRUE)>>
                 ELSE <<>>)
        ELSE <<>>)

\* The writerow calls of one transaction, lines 144-196.
TxRows(bn, from_addr, to_addr, storage_slot, noise) ==
    <<Row(DecDigits(bn), to_addr, SlotOrNull(storage_slot), FALSE, FALSE),
      Row(DecDigits(bn), from_addr, "null", FALSE, FALSE)>>
    \o (IF noise
        THEN <<Row(DecDigits(bn), from_addr, "null", TRUE, FALSE),
               Row(DecDigits(bn), to_addr, "null", FALSE, TRUE)>>
             \o (IF storage_slot # None
                 THEN <<Row(DecDigits(bn), from_addr, RandSlotKey, FALSE, TRUE),
                        Row(DecDigits(bn), to_addr, RandSlotKey, FALSE, TRUE),
                        Row(DecDigits(bn), to_addr, "null", FALSE, TRUE)>>
                 ELSE <<>>)
        ELSE <<>>)

\* range(100), line 208.
NoiseRows == 100

NoiseTail_always(noise) ==
    [k \in 1..NoiseRows |-> Row(<<>>, RandAddress, RandSlotKey, TRUE, TRUE)]

\* The rows appended after the crawl, lines 205-216.
NoiseTail(noise) ==
    IF noise THEN [k \in 1..NoiseRows |-> Row(<<>>, RandAddress, RandSlotKey, TRUE, TRUE)]
    ELSE <<>>

\* The rpc calls of main itself, lines 101 and 51-52.
HeadCall == [method |-> "eth_blockNumber", tag |-> <<>>]
BlockCall(bn) == [method |-> "eth_getBlockByNumber", tag |-> to_hex(bn)]

\* What eth_blockNumber can come back with.
HeadRes == {Raised, Null} \cup {Quantity(n) : n \in (FirstBlock - 1)..(FirstBlock + MaxRange - 1)}

\* What eth_getBlockByNumber can come back with: the call raises, the result is null,
\* or it is a block with a hash (or none) and some transactions.
BlockHash == "0xhash"
BlockRes(counts) ==
    {[kind |-> "raise", hash |-> None, ntx |-> 0], [kind |-> "null", hash |-> None, ntx |-> 0]}
    \cup {[kind |-> "block", hash |-> BlockHash, ntx |-> n] : n \in counts}
    \cup {[kind |-> "block", hash |-> None, ntx |-> 1]}

\* A transaction of a fetched block, with what the node answers when asked for the
\* nonce of its `to` address and for the storage of that address.  Where an answer
\* is never asked for, one stands for all.
FourKeys == {"0x1", "0x10", "0x2", "0xa"}
Tx(from, to, indexed, nonce, trace) ==
    [from |-> from, to |-> to, indexed |-> indexed, nonce |-> nonce, trace |-> trace]
TxEnv ==
    {Tx("0xB", "0xA", TRUE, Quantity(1), t) :
        t \in {TraceRaised, TraceNotDict} \cup {Storage(S) : S \in SUBSET KeyUniverse}}
    \cup {Tx("0xB", "0xA", TRUE, n, Storage(FourKeys)) :
            n \in {Raised, Null, Quantity(0), Quantity(2)}}
    \cup {Tx("0xB", "0xA", FALSE, Quantity(1), Storage(FourKeys)),
          Tx("0xB", None, TRUE, Quantity(1), Storage(FourKeys)),
          Tx(None, "0xA", TRUE, Quantity(1), Storage(FourKeys)),
          Tx(None, None, TRUE, Quantity(1), Storage(FourKeys))}

\* The transactions of a crawl over a range of blocks: a call to a contract of
\* interest, a contract creation, a plain transfer.
RangeTx ==
    {Tx("0xB", "0xA", TRUE, Quantity(1), Storage(FourKeys)),
     Tx("0xB", None, TRUE, Quantity(1), Storage(FourKeys)),
     Tx("0xB", "0xA", TRUE, Quantity(2), Storage(FourKeys))}
RangeTxCounts == {0, 1, 2}

NoTx == Tx(None, None, FALSE, Raised, TraceRaised)
NoTxEnv == [bn |-> NoBlock, hash |-> None, index |-> NoInt, tx |-> NoTx]

CrawlOff ==
    /\ a_start = 0
    /\ a_end = 0
    /\ noisy = FALSE
    /\ g_pc = "off"
    /\ g_latest = NoInt
    /\ end_block = 0
    /\ g_bn = 0
    /\ block_hash = None
    /\ blk_ntx = 0
    /\ txs_left = 0
    /\ out_rows = <<>>
    /\ chain_calls = <<>>
    /\ tx_env = NoTxEnv
    /\ tx_calls = <<>>
    /\ tx_log = <<>>

\* main has parsed its arguments: lines 83-93.
InitCrawlOnly ==
    /\ a_start \in FirstBlock..(FirstBlock + MaxRange)
    /\ a_end \in FirstBlock..(FirstBlock + MaxRange)
    /\ noisy \in BOOLEAN
    /\ g_pc = "start"
    /\ g_latest = NoInt
    /\ end_block = 0
    /\ g_bn = 0
    /\ block_hash = None
    /\ blk_ntx = 0
    /\ txs_left = 0
    /\ out_rows = <<>>
    /\ chain_calls = <<>>
    /\ tx_env = NoTxEnv
    /\ tx_calls = <<>>
    /\ tx_log = <<>>

\* Lines 95-113: the check of the range, then the chain head is asked for and the
\* output file is opened.  An exception of rpc.call is caught nowhere.
CrawlStart(head) ==
    /\ g_pc = "start"
    /\ IF a_end < a_start
       THEN /\ g_pc' = "exit"
            /\ UNCHANGED <<chain_calls, g_latest, end_block, g_bn>>
       ELSE /\ chain_calls' = Append(chain_calls, HeadCall)
            /\ IF head.kind = "raise"
               THEN g_pc' = "crashed" /\ UNCHANGED <<g_latest, end_block, g_bn>>
               ELSE /\ g_latest' = to_int(head)
                    /\ IF g_latest' = NoInt
                       THEN g_pc' = "exit" /\ UNCHANGED <<end_block, g_bn>>
                       ELSE /\ end_block' = IF a_end < g_latest' THEN a_end ELSE g_latest'
                            /\ g_bn' = a_start
                            /\ g_pc' = "loop"
    /\ UNCHANGED <<a_start, a_end, noisy, block_hash, blk_ntx, txs_left, out_rows, tx_env,
                   tx_calls, tx_log>>
    /\ UNCHANGED <<rvars, cvars, avars, bvars>>

\* The head of one iteration of the block loop, lines 116-125.  get_block_with_txs
\* runs outside any except clause: its exception leaves the loop through the
\* finally of lines 202-203 and ends main.
CrawlFetch(block) ==
    /\ g_pc = "loop"
    /\ g_bn <= end_block
    /\ chain_calls' = Append(chain_calls, BlockCall(g_bn))
    /\ CASE block.kind = "raise" ->
              g_pc' = "crashed" /\ UNCHANGED <<g_bn, block_hash, blk_ntx, txs_left>>
         [] block.kind = "null" ->
              g_pc' = "loop" /\ g_bn' = g_bn + 1 /\ UNCHANGED <<block_hash, blk_ntx, txs_left>>
         [] block.kind = "block" ->
              /\ g_pc' = "tx"
              /\ block_hash' = block.hash
              /\ blk_ntx' = block.ntx
              /\ txs_left' = block.ntx
              /\ UNCHANGED g_bn
    /\ UNCHANGED <<a_start, a_end, noisy, g_latest, end_block, out_rows, tx_env, tx_calls,
                   tx_log>>
    /\ UNCHANGED <<rvars, cvars, avars, bvars>>

\* One iteration of the transaction loop, lines 127-196.
CrawlTx(tx) ==
    /\ g_pc = "tx"
    /\ txs_left > 0
    /\ LET tx_index == IF tx.indexed THEN to_int(Quantity(blk_ntx - txs_left)) ELSE NoInt
           s == SampleTx(g_bn, block_hash, tx_index, tx)
           rows == TxRows(g_bn, OrEmpty(tx.from), OrEmpty(tx.to), s.slot, noisy)
       IN /\ tx_env' = [bn |-> g_bn, hash |-> block_hash, index |-> tx_index, tx |-> tx]
          /\ tx_calls' = s.calls
          /\ out_rows' = out_rows \o rows
          /\ tx_log' = Append(tx_log, [bn |-> g_bn, from |-> OrEmpty(tx.from),
                                       to |-> OrEmpty(tx.to), slot |-> s.slot,
                                       at |-> Len(out_rows) + 1, n |-> Len(rows)])
    /\ txs_left' = txs_left - 1
    /\ UNCHANGED <<a_start, a_end, noisy, g_pc, g_latest, end_block, g_bn, block_hash, blk_ntx,
                   chain_calls>>
    /\ UNCHANGED <<rvars, cvars, avars, bvars>>

\* The transactions of the block are exhausted, lines 198-201: on to the next block.
CrawlBlockEnd ==
    /\ g_pc = "tx"
    /\ txs_left = 0
    /\ g_bn' = g_bn + 1
    /\ g_pc' = "loop"
    /\ tx_env' = NoTxEnv
    /\ tx_calls' = <<>>
    /\ UNCHANGED <<a_start, a_end, noisy, g_latest, end_block, block_hash, blk_ntx, txs_left,
                   out_rows, chain_calls, tx_log>>
    /\ UNCHANGED <<rvars, cvars, avars, bvars>>

\* The range is exhausted, lines 202-218: the file is closed, the random rows are
\* appended in noise mode, and main returns.
CrawlFinish ==
    /\ g_pc = "loop"
    /\ g_bn > end_block
    /\ out_rows' = out_rows \o NoiseTail(noisy)
    /\ g_pc' = "done"
    /\ UNCHANGED <<a_start, a_end, noisy, g_latest, end_block, g_bn, block_hash, blk_ntx,
                   txs_left, chain_calls, tx_env, tx_calls, tx_log>>
    /\ UNCHANGED <<rvars, cvars, avars, bvars>>

NextCrawl ==
    \/ \E head \in HeadRes : CrawlStart(head)
    \/ \E block \in BlockRes(RangeTxCounts) : CrawlFetch(block)
    \/ \E tx \in RangeTx : CrawlTx(tx)
    \/ CrawlBlockEnd
    \/ CrawlFinish

\* A crawl of one block, with every kind of transaction.
InitTxOnly ==
    /\ InitCrawlOnly
    /\ a_start \in {FirstBlock, FirstBlock + 1}
    /\ a_end = a_start

NextTx ==
    \/ \E head \in HeadRes : CrawlStart(head)
    \/ \E block \in BlockRes(0..MaxTxs) : CrawlFetch(block)
    \/ \E tx \in TxEnv : CrawlTx(tx)
    \/ CrawlBlockEnd
    \/ CrawlFinish

\* ------------------------------------------------- load_rows (benchmark.py)
\* int(bn_raw), line 61, of a string of decimal digits.
RECURSIVE int10(_)
int10(ds) ==
    IF ds = <<>> THEN 0
    ELSE 10 * int10(SubSeq(ds, 1, Len(ds) - 1))
         + (CHOOSE i \in 0..9 : HexChars[i + 1] = ds[Len(ds)])

\* int(bn_raw) raises ValueError, line 62.
IsDecimal(ds) == \A k \in 1..Len(ds) : \E i \in 0..9 : HexChars[i + 1] = ds[k]

\* if not addr: continue, lines 52-53.
HasAddress_all(r) == TRUE

HasAddress(r) == r.address # ""

\* Lines 55-65 for one row of the file: slot, then bn.
LoadRow(r) ==
    [bn |-> IF r.block_number # <<>> /\ IsDecimal(r.block_number)
            THEN int10(r.block_number) ELSE NoBlock,
     addr |-> r.address,
     slot |-> IF r.storage_slot \in {"", "null", "NULL", "Null"} THEN None
              ELSE r.storage_slot]

\* The for loop of load_rows, lines 50-67, over the rows of the file.
load_rows(csv) ==
    LET kept == SelectSeq(csv, HasAddress)
    IN [k \in 1..Len(kept) |-> LoadRow(kept[k])]

\* ------------------------------------- a crawl's output fed to the benchmark
\* The crawl of the pipeline: noise mode, the range FirstBlock .. FirstBlock +
\* MaxRange - 1 below the chain head, every block null or with one transaction: a
\* call to a contract of interest, a contract creation, or a transaction with
\* neither address.
PipeHead == {Quantity(FirstBlock + MaxRange)}
PipeBlocks ==
    {[kind |-> "null", hash |-> None, ntx |-> 0], [kind |-> "block", hash |-> BlockHash, ntx |-> 1]}
PipeTx ==
    {Tx("0xB", "0xA", TRUE, Quantity(1), Storage(FourKeys)),
     Tx("0xB", None, TRUE, Quantity(1), Storage(FourKeys)),
     Tx(None, None, TRUE, Quantity(1), Storage(FourKeys))}

\* The one answer the node gives to every eth_getProof of the pipeline, and the time
\* it takes.
PipeResp == [transport |-> "ok", status |-> 200, body |-> "proofs"]
PipeElapsed == 1

\* gen_dataset.py has parsed its arguments; benchmark.py is run on its output file
\* once it is done.
InitPipeOnly ==
    /\ InitCrawlOnly
    /\ noisy
    /\ a_start = FirstBlock
    /\ a_end = FirstBlock + MaxRange - 1
    /\ simulate_all = FALSE
    /\ simulate_latest = FALSE
    /\ ResolveOff
    /\ m_pc = "load"
    /\ run_no = 0
    /\ mode_name = None
    /\ total = 0
    /\ b_pos = 0
    /\ req_id = 0
    /\ latencies = <<>>
    /\ successes = 0
    /\ failures = 0
    /\ failure_records = <<>>
    /\ b_pc = "idle"
    /\ payload = NoPayload
    /\ b_resp = NoResp
    /\ row_out = NoRowOut
    /\ http_log = <<>>
    /\ summaries = <<>>

\* base_rows = load_rows(args.inp), benchmark.py line 208, on the file the crawl
\* wrote; then resolve_block_numbers is entered (line 210, lines 77-79).
MainLoad ==
    /\ m_pc = "load"
    /\ g_pc = "done"
    /\ base_rows' = load_rows(out_rows)
    /\ r_pos' = 0
    /\ last_bn' = ResolveStart.last_bn
    /\ skipped' = ResolveStart.skipped
    /\ resolved' = ResolveStart.resolved
    /\ r_pc' = "loop"
    /\ m_pc' = "start"
    /\ UNCHANGED <<cvars, avars, gvars, run_no, mode_name, total, b_pos, req_id, latencies,
                   successes, failures, failure_records, b_pc, payload, b_resp, row_out,
                   http_log, summaries>>

\* resolve_block_numbers has returned and the failure log is initialised: lines
\* 210-217.
MainResolved ==
    /\ m_pc = "start"
    /\ r_pc = "done"
    /\ m_pc' = "dispatch"
    /\ UNCHANGED <<rvars, cvars, avars, gvars, run_no, mode_name, total, b_pos, req_id,
                   latencies, successes, failures, failure_records, b_pc, payload, b_resp,
                   row_out, http_log, summaries>>

NextPipe ==
    \/ \E head \in PipeHead : CrawlStart(head)
    \/ \E block \in PipeBlocks : CrawlFetch(block)
    \/ \E tx \in PipeTx : CrawlTx(tx)
    \/ CrawlBlockEnd
    \/ CrawlFinish
    \/ MainLoad
    \/ ResolveLoop
    \/ ResolveReturn
    \/ MainResolved
    \/ MainRunBatch
    \/ BatchIssue
    \/ BatchRespond(PipeResp, PipeElapsed)
    \/ BatchSummary
    \/ MainDone

\* --------------------------------------------------------- specifications
InitResolve == InitResolveOnly /\ RpcOff /\ BatchOff /\ CrawlOff

SpecResolve == InitResolve /\ [][NextResolve]_vars

InitRpc == InitRpcOnly /\ ResolveOff /\ BatchOff /\ CrawlOff

SpecRpc == InitRpc /\ [][NextRpc]_vars

InitBatch == InitBatchOnly /\ RpcOff /\ CrawlOff

SpecBatch == InitBatch /\ [][NextBatch]_vars

InitPct == InitPctOnly /\ RpcOff /\ CrawlOff

SpecPct == InitPct /\ [][NextPct]_vars

InitCrawl == InitCrawlOnly /\ ResolveOff /\ RpcOff /\ BatchOff

SpecCrawl == InitCrawl /\ [][NextCrawl]_vars

InitTx == InitTxOnly /\ ResolveOff /\ RpcOff /\ BatchOff

SpecTx == InitTx /\ [][NextTx]_vars

InitPipe == InitPipeOnly /\ RpcOff

SpecPipe == InitPipe /\ [][NextPipe]_vars

\* ---------------------------------------------------------- C4, C5, C6
\* A call() has been entered and has ended.
CallEnded == c_inst # 0 /\ c_pc = "idle"
AllFailed == \A k \in 1..Len(posts) : posts[k].failed

\* C4: with max_retries = N >= 0, a call never issues more than N + 1 attempts; a call
\* whose every attempt failed issued exactly N + 1 attempts and raised an error that
\* carries the error of the last attempt; a call with a successful attempt returned that
\* attempt's result, and that attempt is its last one.
C4_RetryBudget ==
    (c_inst # 0 /\ rpc[c_inst].max_retries >= 0) =>
        LET N == rpc[c_inst].max_retries IN
        /\ Len(posts) <= N + 1
        /\ \A k \in 1..Len(posts) : ~posts[k].failed => k = Len(posts)
        /\ (CallEnded /\ AllFailed) =>
              /\ Len(posts) = N + 1
              /\ outcome.kind = "raised"
              /\ outcome.value = AttemptError(last_resp)
              /\ outcome.value # None
        /\ (Len(posts) > 0 /\ ~posts[Len(posts)].failed) =>
              /\ CallEnded
              /\ outcome = [kind |-> "returned", value |-> ResultOf(last_resp)]
        /\ (outcome.kind = "raised") => (AllFailed /\ Len(posts) = N + 1)
        /\ (outcome.kind = "returned") => (Len(posts) > 0 /\ ~posts[Len(posts)].failed)

\* A call with max_retries = 2 that failed three times and raised.
C4_Witness ==
    /\ CallEnded
    /\ rpc[c_inst].max_retries = 2
    /\ Len(posts) = 3
    /\ outcome.kind = "raised"

\* The claim's three kinds of failed attempt.
ClaimedFailure(resp) ==
    \/ resp.transport = "exc"
    \/ ~(resp.status >= 200 /\ resp.status < 300)
    \/ resp.body = "error"

\* The sleeps of a call: after failed attempt k (0-indexed) that is not the last one
\* allowed, backoff * 2^k; none after the final failed attempt.
BackoffSchedule ==
    (c_inst # 0 /\ rpc[c_inst].max_retries >= 0) =>
        /\ Len(sleeps) = retries
        /\ \A k \in 1..Len(sleeps) : sleeps[k] = rpc[c_inst].backoff * (2 ^ (k - 1))
        /\ rpc[c_inst].backoff = 0 => \A k \in 1..Len(sleeps) : sleeps[k] = 0
        /\ Len(sleeps) <= rpc[c_inst].max_retries
        /\ Len(sleeps) = Cardinality({k \in 1..Len(posts) : posts[k].failed /\ k <= rpc[c_inst].max_retries})

\* C5: an attempt whose transport fails, whose HTTP status is not 2xx or whose body has
\* an `error` field is treated as a failure (retried, or raised when retries are
\* exhausted); the sleep after failed attempt k < max_retries is backoff * 2^k, nothing
\* when backoff = 0, and there is no sleep after the final failed attempt.
C5_AsStated ==
    /\ Len(posts) > 0 => (ClaimedFailure(last_resp) => posts[Len(posts)].failed)
    /\ BackoffSchedule

\* C6: on every instance self._id equals the number of calls made on it, the n-th call's
\* payload carries id n, and every attempt of a call carries that call's id.
C6_RequestIds ==
    /\ \A i \in Insts : rpc[i].id = calls[i]
    /\ c_inst # 0 => payload_id = calls[c_inst]
    /\ \A k \in 1..Len(posts) : posts[k].id = calls[c_inst]
    /\ \A i \in Insts : calls[i] = 0 => rpc[i].id = 0

\* The second call on instance 1, retried, after a call on instance 2.
C6_Witness ==
    /\ c_inst = 1
    /\ calls[1] = 2
    /\ calls[2] = 1
    /\ Len(posts) >= 2
    /\ posts[Len(posts)].id = 2

\* ------------------------------------------------------- C7, C8, C9, C10
\* A response has come back for the row in hand and has been classified.
Classified == b_resp.transport # "none"

\* C7: a row is a success if and only if the request got a successful (2xx) HTTP status
\* and the body has no `error` field and a result with both accountProof and
\* storageProof (storageProof may be empty).
C7_AsStated ==
    Classified =>
        (row_out.ok <=>
            /\ b_resp.transport = "ok"
            /\ b_resp.status >= 200 /\ b_resp.status < 300
            /\ b_resp.body \in {"proofs", "proofs_empty_storage"})

\* The part of C7 the code meets: with "successful status" read as "not 4xx/5xx".
C7_ErrorStatus ==
    Classified =>
        (row_out.ok <=>
            /\ b_resp.transport = "ok"
            /\ ~(b_resp.status >= 400 /\ b_resp.status < 600)
            /\ b_resp.body \in {"proofs", "proofs_empty_storage"})

\* The POSTs of the run_batch call in hand.
InRun(e) == e.run = run_no
RunLog == SelectSeq(http_log, InRun)

\* C8: run_batch posts one request per row, in input order, the request of row k + 1
\* only once latency and outcome of rows 1..k are recorded; failed rows are neither
\* retried nor do they stop the rows after them.
C8_Sequential ==
    (b_pc \in {"loop", "posted", "idle"} /\ run_no >= 1) =>
        /\ Len(RunLog) = b_pos + (IF b_pc = "posted" THEN 1 ELSE 0)
        /\ Len(RunLog) <= total
        /\ \A k \in 1..Len(RunLog) :
              /\ RunLog[k].payload.id = k
              /\ RunLog[k].payload.address = resolved[k].addr
              /\ RunLog[k].payload.storage_keys =
                    (IF resolved[k].slot = None THEN <<>> ELSE <<resolved[k].slot>>)
        /\ total > 0 => /\ Len(latencies) = b_pos
                        /\ successes + failures = b_pos
                        /\ Len(failure_records) = failures
        /\ b_pc = "idle" => Len(RunLog) = total

\* A finished run of two rows whose first row failed and whose second row succeeded.
C8_Witness ==
    /\ b_pc = "idle"
    /\ run_no >= 1
    /\ total = 2
    /\ failure_records = <<1>>
    /\ successes = 1
    /\ Len(RunLog) = 2

Range(s) == {s[i] : i \in DOMAIN s}

\* v is the element at (0-based) index idx of the ascending order of the samples.
IsOrderStat(v, idx) ==
    /\ v \in Range(latencies)
    /\ Cardinality({i \in DOMAIN latencies : latencies[i] < v}) <= idx
    /\ Cardinality({i \in DOMAIN latencies : latencies[i] <= v}) >= idx + 1

\* C9: the summary of n >= 1 samples has p50 and p95 at index floor(0.5 * (n - 1)) and
\* floor(0.95 * (n - 1)) of the sorted samples, p99 at index floor(0.99 * (n - 1)) when
\* n >= 100 and the largest sample when n < 100; the samples 0.1 .. 1.0 give p50 = 0.5.
C9_Percentiles ==
    (b_pc = "idle" /\ Len(summaries) > 0 /\ total > 0) =>
        LET s == summaries[Len(summaries)]
            n == Len(latencies)
        IN /\ IsOrderStat(s.p50, (n - 1) \div 2)
           /\ IsOrderStat(s.p95, (19 * (n - 1)) \div 20)
           /\ n >= 100 => IsOrderStat(s.p99, (99 * (n - 1)) \div 100)
           /\ n < 100 => IsOrderStat(s.p99, n - 1)
           /\ (n = 10 /\ Range(latencies) = 1..10) => s.p50 = 5

\* The summary of the ten samples 0.1 .. 1.0, recorded out of order.
C9_Witness ==
    /\ b_pc = "idle"
    /\ Len(summaries) = 1
    /\ Len(latencies) = 10
    /\ Range(latencies) = 1..10
    /\ latencies[1] = 3
    /\ summaries[1].p50 = 5
    /\ summaries[1].p99 = 10

\* A summary of at least 100 distinct samples, whose p99 is not the largest sample.
C9_WitnessLarge ==
    /\ b_pc = "idle"
    /\ Len(summaries) = 1
    /\ Len(latencies) >= 100
    /\ \E i \in DOMAIN latencies : latencies[i] > summaries[1].p99

\* The number a string of hexadecimal digits denotes.
HexVal(c) == (CHOOSE i \in 1..16 : HexChars[i] = c) - 1
RECURSIVE ParseHex(_)
ParseHex(ds) ==
    IF ds = <<>> THEN 0
    ELSE 16 * ParseHex(SubSeq(ds, 1, Len(ds) - 1)) + HexVal(ds[Len(ds)])

IsHexOf(tag, n) ==
    /\ Len(tag) >= 3
    /\ SubSeq(tag, 1, 2) = <<"0", "x">>
    /\ \A i \in 3..Len(tag) : tag[i] \in Range(HexChars)
    /\ (Len(tag) > 3 => tag[3] # "0")
    /\ ParseHex(SubSeq(tag, 3, Len(tag))) = n

\* C10: a REAL-BLOCKS request carries the 0x-prefixed hexadecimal of its row's effective
\* block, a SIM-LATEST request carries "latest"; --simulate-all runs SIM-LATEST and then
\* REAL-BLOCKS over the same unchanged rows, each run with fresh counters and
\* latencies and a summary of its own.
C10_BlockTags ==
    /\ \A j \in 1..Len(http_log) :
          LET e == http_log[j] IN
          /\ e.mode = "REAL-BLOCKS" =>
                IsHexOf(e.payload.block_tag, resolved[e.payload.id].effective)
          /\ e.mode = "SIM-LATEST" => e.payload.block_tag = Latest
          /\ e.mode = Schedule(simulate_all, simulate_latest)[e.run]
    /\ simulate_all => Schedule(simulate_all, simulate_latest) = <<"SIM-LATEST", "REAL-BLOCKS">>
    /\ (~simulate_all /\ simulate_latest) => \A j \in 1..Len(http_log) : http_log[j].mode = "SIM-LATEST"
    /\ (~simulate_all /\ ~simulate_latest) => \A j \in 1..Len(http_log) : http_log[j].mode = "REAL-BLOCKS"
    /\ m_pc \in {"dispatch", "done"} => resolved = resolve_block_numbers(base_rows).resolved
    /\ (b_pc = "loop" /\ b_pos = 0) =>
          /\ req_id = 0
          /\ latencies = <<>>
          /\ successes = 0
          /\ failures = 0
          /\ failure_records = <<>>
    /\ \A j \in 1..Len(summaries) :
          /\ summaries[j].mode = Schedule(simulate_all, simulate_latest)[j]
          /\ summaries[j].total = Len(resolved)
          /\ summaries[j].successes + summaries[j].failures = Len(resolved)
    /\ (b_pc = "idle" /\ Len(summaries) > 0) =>
          /\ summaries[Len(summaries)].successes = successes
          /\ summaries[Len(summaries)].failures = failures
          /\ Len(summaries) = run_no
    /\ (m_pc = "done" /\ Len(resolved) > 0) =>
          /\ Len(summaries) = Len(Schedule(simulate_all, simulate_latest))
          /\ Len(http_log) = Len(summaries) * Len(resolved)

\* --simulate-all has finished over two rows, the second an absent-block row filled with
\* block 26: both runs posted both rows, the second run with the tag 0x1a.
C10_Witness ==
    /\ m_pc = "done"
    /\ simulate_all
    /\ Len(summaries) = 2
    /\ Len(http_log) = 4
    /\ resolved[2].original = NoBlock
    /\ http_log[2].payload.block_tag = Latest
    /\ http_log[4].payload.block_tag = <<"0", "x", "1", "a">>
    /\ summaries[1].failures # summaries[2].failures

\* ------------------------------------------------- C11, C15, C18, C12..C14
\* The block numbers whose fetch has been asked of the node, in the order asked.
IsBlockCall(c) == c.method = "eth_getBlockByNumber"
FetchedTags == [k \in 1..Len(SelectSeq(chain_calls, IsBlockCall)) |->
                  SelectSeq(chain_calls, IsBlockCall)[k].tag]

\* main has ended on an exception nothing caught.
Crashed == g_pc = "crashed"

\* C11: no error of a block fetch, nonce query or storage trace (failed after the
\* client's retries) aborts the crawl: the only exception that ends main is one of
\* the eth_blockNumber call made before the first block.
C11_AsStated == Crashed => FetchedTags = <<>>

\* The tags of the blocks start..min(end, head), ascending.
ClampedRange ==
    [k \in 1..((IF a_end < g_latest THEN a_end ELSE g_latest) - a_start + 1) |->
        to_hex(a_start + k - 1)]

\* main has left through sys.exit(1) without having made an rpc call.
ExitedBeforeRpc == g_pc = "exit" /\ chain_calls = <<>> /\ g_latest = NoInt

\* C15: main exits with a failure before any rpc call if and only if end < start;
\* otherwise, once it has the chain head, it fetches exactly the blocks
\* start..min(end, head), each once, in ascending order (none when head < start).
C15_AsStated ==
    /\ g_pc # "start" => (ExitedBeforeRpc <=> a_end < a_start)
    /\ g_pc \in {"done", "crashed"} /\ g_latest # NoInt => FetchedTags = ClampedRange

\* The part of C15 the code meets: the exit, and the fetches of a crawl that no block
\* fetch ended.
C15_Completed ==
    /\ g_pc # "start" => (ExitedBeforeRpc <=> a_end < a_start)
    /\ g_pc = "done" => FetchedTags = ClampedRange
    /\ g_pc \in {"loop", "tx"} =>
          /\ Len(FetchedTags) <= Len(ClampedRange)
          /\ FetchedTags = SubSeq(ClampedRange, 1, Len(FetchedTags))

\* The number of the block a row of the output file is for.
RowBlock(r) == int10(r.block_number)

\* The rows written for a processed transaction.
TxGroup(t) == SubSeq(out_rows, t.at, t.at + t.n - 1)

\* C12 as stated: a transaction without a `to` address yields no `to` row, so every
\* row written for it carries its `from` address.
C12_AsStated ==
    \A i \in DOMAIN tx_log :
        tx_log[i].to = "" =>
            \A k \in DOMAIN TxGroup(tx_log[i]) : TxGroup(tx_log[i])[k].address = tx_log[i].from

\* C12 amended: a transaction without a `to` address still yields a `to` row, with an
\* empty address and the null marker for the slot, directly followed by its `from`
\* row; no slot is sampled for it.
C12_Amended ==
    \A i \in DOMAIN tx_log :
        LET t == tx_log[i] IN
        t.to = "" =>
            /\ t.n >= 2
            /\ t.at + 1 <= Len(out_rows)
            /\ out_rows[t.at].address = ""
            /\ out_rows[t.at].storage_slot = "null"
            /\ RowBlock(out_rows[t.at]) = t.bn
            /\ ~out_rows[t.at].randomized_account /\ ~out_rows[t.at].randomized_slot
            /\ out_rows[t.at + 1].address = t.from
            /\ out_rows[t.at + 1].storage_slot = "null"
            /\ RowBlock(out_rows[t.at + 1]) = t.bn
            /\ ~out_rows[t.at + 1].randomized_account /\ ~out_rows[t.at + 1].randomized_slot
            /\ t.slot = None
            /\ (i = Len(tx_log) /\ g_pc = "tx") => tx_calls = <<>>

\* A finished crawl without noise that met a contract creation sent by 0xB.
C12_Witness ==
    /\ g_pc = "done"
    /\ ~noisy
    /\ \E i \in DOMAIN tx_log : tx_log[i].to = "" /\ tx_log[i].from = "0xB"

\* A row written by the noise code of a transaction: one of its flags is set.
Flagged(r) == r.randomized_account \/ r.randomized_slot

\* The rows written for the processed transactions lie one group after the other,
\* from the first row of the file on.
GroupsTile ==
    /\ \A i \in DOMAIN tx_log :
          tx_log[i].at = IF i = 1 THEN 1 ELSE tx_log[i - 1].at + tx_log[i - 1].n
    /\ tx_log # <<>> => tx_log[Len(tx_log)].at + tx_log[Len(tx_log)].n - 1 <= Len(out_rows)
    /\ tx_log # <<>> /\ g_pc # "done" =>
          tx_log[Len(tx_log)].at + tx_log[Len(tx_log)].n - 1 = Len(out_rows)

\* How many rows a transaction has beyond its baseline pair.
ExtraRows(t) == t.n - 2

\* C13 as stated: in noise mode a transaction with a sampled slot has exactly four
\* rows beyond its baseline pair.
C13_AsStated ==
    noisy => \A i \in DOMAIN tx_log : tx_log[i].slot # None => ExtraRows(tx_log[i]) = 4

\* C13 amended: in noise mode a transaction with a sampled slot has exactly five rows
\* beyond its baseline pair, of which a transaction without a sampled slot has two;
\* without noise mode no transaction has any.  The additional rows follow the pair and
\* are the flagged rows of the transaction's block.
C13_Amended ==
    /\ GroupsTile
    /\ \A i \in DOMAIN tx_log :
          LET t == tx_log[i] IN
          /\ ExtraRows(t) = IF ~noisy THEN 0 ELSE IF t.slot # None THEN 5 ELSE 2
          /\ \A k \in 1..t.n :
                /\ Flagged(TxGroup(t)[k]) <=> k > 2
                /\ RowBlock(TxGroup(t)[k]) = t.bn
                /\ TxGroup(t)[k].address \in {t.from, t.to}

\* A finished noise-mode crawl that met a transaction with a sampled slot and one
\* without.
C13_Witness ==
    /\ g_pc = "done"
    /\ noisy
    /\ \E i, j \in DOMAIN tx_log : tx_log[i].slot # None /\ tx_log[j].slot = None

\* The row is the baseline row of block bn for this address and slot marker.
IsBaseline(r, bn, address, slot) ==
    /\ RowBlock(r) = bn
    /\ r.address = address
    /\ r.storage_slot = slot
    /\ ~r.randomized_account
    /\ ~r.randomized_slot

\* The transactions of the block in hand processed so far.
InBlock(t) == t.bn = g_bn

\* C14: every transaction of every fetched block gets a baseline pair: a `to` row
\* (block number, to address, the sampled slot or the null marker, both flags false)
\* directly followed by a `from` row (block number, from address, null marker, both
\* flags false); no transaction of a fetched block is passed over.
C14_BaselinePair ==
    /\ \A i \in DOMAIN tx_log :
          LET t == tx_log[i] IN
          /\ t.at + 1 <= Len(out_rows)
          /\ IsBaseline(out_rows[t.at], t.bn, t.to, IF t.slot = None THEN "null" ELSE t.slot)
          /\ IsBaseline(out_rows[t.at + 1], t.bn, t.from, "null")
          /\ i > 1 => /\ tx_log[i - 1].bn <= t.bn
                      /\ tx_log[i - 1].at + 2 <= t.at
    /\ g_pc = "tx" => Len(SelectSeq(tx_log, InBlock)) = blk_ntx - txs_left
    /\ g_pc = "loop" /\ tx_log # <<>> /\ tx_log[Len(tx_log)].bn = g_bn - 1 =>
          Len(SelectSeq(tx_log, LAMBDA t : t.bn = g_bn - 1)) = blk_ntx

\* The crawl of [10, 10] without noise has finished; the block had one transaction
\* from 0xB to 0xA, 0xA's nonce was 1 and the trace answered four keys of which
\* 0xa is the 4th: the file holds (10, 0xA, 0xa, false, false), (10, 0xB, null,
\* false, false).
C14_Witness ==
    /\ g_pc = "done"
    /\ a_start = 10 /\ a_end = 10
    /\ out_rows = <<Row(<<"1", "0">>, "0xA", "0xa", FALSE, FALSE),
                    Row(<<"1", "0">>, "0xB", "null", FALSE, FALSE)>>

\* The number of rows written for the transactions of the range.
RangeRows == IF tx_log = <<>> THEN 0 ELSE tx_log[Len(tx_log)].at + tx_log[Len(tx_log)].n - 1

\* A fully random row: no block number, a random address and slot, both flags set.
IsRandomRow(r) ==
    /\ r.block_number = <<>>
    /\ r.address = RandAddress
    /\ r.storage_slot = RandSlotKey
    /\ r.randomized_account
    /\ r.randomized_slot

\* C18: a crawl that has processed its whole range has appended, in noise mode,
\* exactly 100 fully random rows after every row of the range, and without noise mode
\* none; no such row is in the file before the range has been processed.
C18_NoiseTail ==
    /\ \A k \in 1..RangeRows : k <= Len(out_rows) /\ out_rows[k].block_number # <<>>
    /\ g_pc # "done" => Len(out_rows) = RangeRows
    /\ g_pc = "done" /\ ~noisy => Len(out_rows) = RangeRows
    /\ g_pc = "done" /\ noisy =>
          /\ Len(out_rows) = RangeRows + 100
          /\ \A k \in (RangeRows + 1)..Len(out_rows) : IsRandomRow(out_rows[k])

\* A finished noise-mode crawl of two blocks with transactions: 100 random rows after
\* the rows of the range.
C18_Witness ==
    /\ g_pc = "done"
    /\ noisy
    /\ \E i, j \in DOMAIN tx_log : tx_log[i].bn < tx_log[j].bn
    /\ Len(out_rows) = RangeRows + 100
    /\ IsRandomRow(out_rows[Len(out_rows)])

\* ------------------------------------------------------------ C16, C17
\* A transaction is in hand: its rows are written, the block is not left yet.
TxInHand == g_pc = "tx" /\ tx_env.bn # NoBlock

IsNonceCall(c) == c.method = "eth_getTransactionCount"
IsTraceCall(c) == c.method = "debug_storageRangeAt"

\* The nonce of the `to` address was asked for; a storage slot was sampled for it.
NonceQueried == SelectSeq(tx_calls, IsNonceCall) # <<>>
Traced == SelectSeq(tx_calls, IsTraceCall) # <<>>

\* The node answered the nonce query with the count 1.
NonceIsOne == tx_env.tx.nonce.kind = "hex" /\ tx_env.tx.nonce.hex = <<"0", "x", "1">>

\* The transaction has both addresses, a block hash and an index.
Complete ==
    /\ tx_env.tx.from # None
    /\ tx_env.tx.to # None
    /\ tx_env.hash # None
    /\ tx_env.tx.indexed

\* C16 as stated: the `to` address of a transaction is sampled if and only if its
\* transaction count equals 1, and the count is the one at the pre-state of the block
\* being crawled: the state of the block before it.
C16_AsStated ==
    TxInHand /\ tx_env.tx.to # None =>
        /\ Traced <=> NonceIsOne
        /\ \A k \in DOMAIN tx_calls :
              IsNonceCall(tx_calls[k]) => IsHexOf(tx_calls[k].tag, tx_env.bn - 1)

\* C16 amended: the `to` address is sampled if and only if the transaction has both
\* addresses, a block hash and an index, and the transaction count of the `to`
\* address, asked for at the block being crawled itself, equals 1; a nonce query that
\* failed or came back empty means no sampling, and ends no crawl.
C16_Amended ==
    /\ TxInHand =>
          /\ NonceQueried <=> Complete
          /\ Traced <=> Complete /\ NonceIsOne
          /\ tx_env.tx.nonce.kind \in {"raise", "null"} =>
                ~Traced /\ tx_log[Len(tx_log)].slot = None
          /\ \A k \in DOMAIN tx_calls :
                IsNonceCall(tx_calls[k]) =>
                    /\ k = 1
                    /\ tx_calls[k].addr = tx_env.tx.to
                    /\ IsHexOf(tx_calls[k].tag, tx_env.bn)
          /\ \A k \in DOMAIN tx_calls : IsTraceCall(tx_calls[k]) => k = 2
          /\ Len(tx_calls) <= 2
    /\ Crashed => tx_log = <<>>

\* A transaction of block 10 whose `to` address had the count 1 at block 0xa and was
\* sampled.
C16_Witness ==
    /\ TxInHand
    /\ tx_env.bn = 10
    /\ NonceIsOne /\ Traced
    /\ tx_calls[1].tag = <<"0", "x", "a">>
    /\ tx_log[Len(tx_log)].slot # None

\* The keys of the model's traces in ascending order as strings: "0x0f" < "0x1" by
\* the third character, "0x1" < "0x10" as its prefix, "0x10" < "0x2" by the third
\* character, "0x2" < "0xa" as digits come before letters.
Ascending == <<"0x0f", "0x1", "0x10", "0x2", "0xa">>
IsAnswered(k) == k \in tx_env.tx.trace.keys
AnsweredAscending == SelectSeq(Ascending, IsAnswered)

\* C17: the sampling asks for the storage from key zero with a limit of 16 entries;
\* its slot is the 4th of the answered keys in ascending lexicographic order when
\* there are at least 4, and none when there are fewer, when the answer holds no
\* storage map, or when the call failed.
C17_FourthKey ==
    TxInHand /\ Traced =>
        LET c == tx_calls[Len(tx_calls)]
            slot == tx_log[Len(tx_log)].slot
        IN /\ Len(c.start_key) = 66
           /\ c.start_key[1] = "0" /\ c.start_key[2] = "x"
           /\ \A k \in 3..66 : c.start_key[k] = "0"
           /\ c.limit = 16
           /\ c.addr = tx_env.tx.to /\ c.hash = tx_env.hash /\ c.index = tx_env.index
           /\ slot = IF tx_env.tx.trace.kind = "storage" /\ Len(AnsweredAscending) >= 4
                     THEN AnsweredAscending[4] ELSE None

\* A trace that answered all five keys: the slot is 0x2, the 4th as strings (as
\* numbers the 4th would be 0x0f).
C17_Witness ==
    /\ TxInHand /\ Traced
    /\ tx_env.tx.trace = Storage(KeyUniverse)
    /\ tx_log[Len(tx_log)].slot = "0x2"

\* The three ways to no slot: three keys, no storage map, a failed call.
C17_WitnessNone ==
    /\ TxInHand /\ Traced
    /\ tx_log[Len(tx_log)].slot = None
    /\ \/ tx_env.tx.trace.kind = "storage" /\ Cardinality(tx_env.tx.trace.keys) = 3
       \/ tx_env.tx.trace.kind = "notdict"
       \/ tx_env.tx.trace.kind = "raise"

\* ------------------------------------------------------------------ C19
\* A run_batch call over at least one row is under way or has returned.
RunOverRows == run_no >= 1 /\ total >= 1

\* The request id of the last request of the run, 0 when there is none yet.
LastRequestId == IF RunLog = <<>> THEN 0 ELSE RunLog[Len(RunLog)].payload.id

\* C19 as stated: at every point of a run over n >= 1 rows, successes + failures, the
\* number of recorded latencies, the number of rows processed so far and the id of
\* the last request issued are equal.
C19_AsStated ==
    RunOverRows =>
        /\ successes + failures = Len(latencies)
        /\ Len(latencies) = b_pos
        /\ b_pos = LastRequestId

\* C19 amended: the four are equal whenever no request is in flight; while the request
\* of a row is in flight its id is one more than the other three.  At the end all
\* equal n, there is one failure artifact per failure and the fail rate is
\* failures / n * 100.  A run over no row issues no request and computes no summary.
C19_Amended ==
    /\ RunOverRows =>
          /\ successes + failures = Len(latencies)
          /\ Len(latencies) = b_pos
          /\ req_id = LastRequestId
          /\ b_pos + (IF b_pc = "posted" THEN 1 ELSE 0) = LastRequestId
          /\ b_pos <= total
          /\ b_pc = "idle" =>
                /\ b_pos = total
                /\ Len(failure_records) = failures
                /\ Len(summaries) = run_no
                /\ summaries[run_no].total = total
                /\ summaries[run_no].failures = failures
                /\ summaries[run_no].successes = successes
                /\ summaries[run_no].fail_rate.den # 0
                /\ summaries[run_no].fail_rate.num * total
                      = failures * 100 * summaries[run_no].fail_rate.den
    /\ run_no >= 1 /\ total = 0 =>
          /\ http_log = <<>>
          /\ summaries = <<>>
          /\ b_pc = "idle"

\* A run over two rows has returned with one failure: a fail rate of 50.
C19_Witness ==
    /\ RunOverRows
    /\ b_pc = "idle"
    /\ total = 2
    /\ failures = 1
    /\ summaries[run_no].fail_rate.num = 50 * summaries[run_no].fail_rate.den

\* A run over no row has returned.
C19_WitnessEmpty == run_no >= 1 /\ total = 0 /\ m_pc = "done"

\* ------------------------------------------------------------------ C20
\* The rows of the file that carry an address, in file order.
Addressed(r) == r.address # ""
AddressedRows == SelectSeq(out_rows, Addressed)

\* The rows of the range (those before the random rows) that carry an address.
AddressedRange == SelectSeq(SubSeq(out_rows, 1, RangeRows), Addressed)

\* What the benchmark is to make of a row of the file.
AsLoaded(r) ==
    [bn |-> IF r.block_number = <<>> THEN NoBlock ELSE RowBlock(r),
     addr |-> r.address,
     slot |-> IF r.storage_slot = "null" THEN None ELSE r.storage_slot]

\* The noise-mode crawl is done and the benchmark has resolved its file.
PipeResolved == g_pc = "done" /\ noisy /\ r_pc = "done"

\* The last 100 resolved rows are the random rows of the file, each resolved to
\* block bn.
TailResolvedTo(bn) ==
    /\ Len(resolved) >= 100
    /\ \A k \in (Len(resolved) - 99)..Len(resolved) :
          /\ resolved[k].addr = RandAddress
          /\ resolved[k].slot = RandSlotKey
          /\ resolved[k].original = NoBlock
          /\ resolved[k].effective = bn

\* C20 as stated: when the crawl wrote a row with an address, each of the 100 random
\* rows is resolved to the block number of the last row of the range.
C20_AsStated ==
    PipeResolved /\ AddressedRange # <<>> => TailResolvedTo(RowBlock(out_rows[RangeRows]))

\* C20 amended: the rows without an address are removed at load time and the others
\* are loaded in order; when the crawl wrote a row with an address, none of the 100
\* random rows is dropped, each is resolved to the block number of the last row of
\* the range that has an address, and each is sent as a request with that block;
\* when it wrote none, all 100 are dropped.
C20_Amended ==
    /\ m_pc # "load" =>
          /\ Len(base_rows) = Len(AddressedRows)
          /\ \A k \in DOMAIN base_rows : base_rows[k] = AsLoaded(AddressedRows[k])
    /\ PipeResolved /\ AddressedRange # <<>> =>
          /\ TailResolvedTo(RowBlock(AddressedRange[Len(AddressedRange)]))
          /\ skipped = 0
          /\ Len(resolved) = Len(AddressedRange) + 100
    /\ PipeResolved /\ AddressedRange = <<>> =>
          /\ resolved = <<>>
          /\ skipped = 100
    /\ PipeResolved /\ m_pc = "done" /\ AddressedRange # <<>> =>
          /\ Len(http_log) = Len(resolved)
          /\ \A k \in (Len(http_log) - 99)..Len(http_log) :
                /\ http_log[k].payload.address = RandAddress
                /\ http_log[k].payload.storage_keys = <<RandSlotKey>>
                /\ IsHexOf(http_log[k].payload.block_tag,
                           RowBlock(AddressedRange[Len(AddressedRange)]))

\* The benchmark has finished over the file of a crawl whose last block with a
\* transaction held a contract creation: the last row of the range has no address,
\* and the 100 random rows were sent with that block.
C20_Witness ==
    /\ PipeResolved
    /\ m_pc = "done"
    /\ AddressedRange # <<>>
    /\ out_rows[RangeRows].address = ""
    /\ Len(http_log) = Len(AddressedRange) + 100
    /\ http_log[Len(http_log)].payload.address = RandAddress

\* The crawl wrote no row with an address: the 100 random rows were dropped.
C20_WitnessDropped == PipeResolved /\ AddressedRange = <<>> /\ skipped = 100 /\ m_pc = "done"

\* ---------------------------------------------------------- C1, C2, C3
\* Input row i is present, or has a present row before it.
Present(i) == base_rows[i].bn # NoBlock
Kept(i) == Present(i) \/ \E j \in 1..(i - 1) : Present(j)

\* The input indices, in order, of the rows that are not dropped among the first n.
KeptIdx(n) == SelectSeq([i \in 1..n |-> i], Kept)

\* The nearest input row at or before i whose block number is present.
Nearest(i) == CHOOSE j \in 1..i : Present(j) /\ \A m \in (j + 1)..i : ~Present(m)

\* C1: every output row's effectiveBlock is the row's own block number when that is
\* present, and otherwise the block number of the nearest preceding input row whose
\* block number is present, however many absent-block rows lie in between.
C1_EffectiveBlock ==
    LET kept == KeptIdx(r_pos) IN
    /\ Len(resolved) = Len(kept)
    /\ \A k \in 1..Len(resolved) :
          LET i == kept[k] IN
          /\ Present(i) => resolved[k].effective = base_rows[i].bn
          /\ ~Present(i) => resolved[k].effective = base_rows[Nearest(i)].bn

\* A finished run in which an absent row was filled across another absent row.
C1_Witness ==
    /\ r_pc = "done"
    /\ \E k \in 2..Len(resolved) :
          /\ resolved[k].original = NoBlock
          /\ resolved[k - 1].original = NoBlock
          /\ resolved[k].effective # NoBlock
    /\ \E k \in 1..Len(resolved) : resolved[k].original # NoBlock /\ resolved[k].effective = resolved[k].original

\* C2: exactly the rows with an absent block number and no earlier present one are
\* dropped, skipped counts them, and every other row is output once, in input order,
\* with address, slot and original block number unchanged.
C2_DropsExactly ==
    LET kept == KeptIdx(r_pos) IN
    /\ Len(resolved) = Len(kept)
    /\ skipped = Cardinality({i \in 1..r_pos : ~Kept(i)})
    /\ skipped + Len(resolved) = r_pos
    /\ \A k \in 1..Len(resolved) :
          LET i == kept[k] IN
          /\ resolved[k].addr = base_rows[i].addr
          /\ resolved[k].slot = base_rows[i].slot
          /\ resolved[k].original = base_rows[i].bn

\* A finished run that dropped a row and kept two rows with different addresses.
C2_Witness ==
    /\ r_pc = "done"
    /\ skipped >= 1
    /\ Len(resolved) >= 2
    /\ resolved[1].addr # resolved[2].addr

\* C3 as stated: every output row's effectiveBlock is its own originalBlock or the
\* originalBlock of the row right before it.
C3_AsStated ==
    \A k \in 1..Len(resolved) :
        \/ resolved[k].effective = resolved[k].original
        \/ k > 1 /\ resolved[k].effective = resolved[k - 1].original

\* C3 amended: every output row's effectiveBlock is its own originalBlock or the
\* originalBlock of the most recent prior output row whose originalBlock is present.
C3_Amended ==
    \A k \in 1..Len(resolved) :
        \/ resolved[k].effective = resolved[k].original
        \/ \E j \in 1..(k - 1) :
              /\ resolved[j].original # NoBlock
              /\ \A m \in (j + 1)..(k - 1) : resolved[m].original = NoBlock
              /\ resolved[k].effective = resolved[j].original

\* A finished run with two present rows of different blocks followed by an absent row.
C3_Witness ==
    /\ r_pc = "done"
    /\ \E k \in 3..Len(resolved) :
          /\ resolved[k].original = NoBlock
          /\ resolved[k - 1].original # NoBlock
          /\ resolved[k - 2].original # NoBlock
          /\ resolved[k - 1].original # resolved[k - 2].original

====
